---- MODULE Spec2Model ----
(***************************************************************************)
(* Model of the disaster-risk prediction service of src/main.py: the       *)
(* /predict/<state> handler, the weather fetch it performs, the five      *)
(* per-hazard risk functions, the semantic score and the recommendation   *)
(* bands.                                                                  *)
(*                                                                         *)
(* Number representation (the code computes in floats; the model is exact *)
(* fixed point over integer weather readings):                            *)
(*   risk_percentage    in thousandths of a percent (43.0 % = 43000)      *)
(*   hf_semantic_score  in units of 10^-7           (1.0    = 10000000)   *)
(*   confidence         in units of 10^-9           (0.95   = 950000000)  *)
(*   multipliers        in hundredths               (1.35   = 135)        *)
(*   lat / lon          in units of 10^-4 degrees                         *)
(* A JSON field whose value is null or not a number is recorded by its    *)
(* name in the snapshot's "nulls" set; its integer slot is then unused.   *)
(* details.calculation_time (the wall clock) and the echoed               *)
(* forecast_summary list feed no computed field and are left out.         *)
(***************************************************************************)
EXTENDS Integers, Sequences, FiniteSets, TLC

VARIABLES STATES, hashSalt, request, source, calls, response

vars == <<STATES, hashSalt, request, source, calls, response>>

Min(a, b) == IF a <= b THEN a ELSE b
Max(a, b) == IF a >= b THEN a ELSE b

\* dict.get(key, default)
Get(dict, key, default) == IF key \in DOMAIN dict THEN dict[key] ELSE default

----------------------------------------------------------------------------
\* Bounds

\* per-process string-hash salts explored (0..MaxSalt)
MaxSalt == 2

Salts == 0..MaxSalt

----------------------------------------------------------------------------
\* Configuration

StateNames ==
    << "Andhra Pradesh", "Arunachal Pradesh", "Assam", "Bihar", "Chhattisgarh",
       "Goa", "Gujarat", "Haryana", "Himachal Pradesh", "Jharkhand",
       "Karnataka", "Kerala", "Madhya Pradesh", "Maharashtra", "Manipur",
       "Meghalaya", "Mizoram", "Nagaland", "Odisha", "Punjab", "Rajasthan",
       "Sikkim", "Tamil Nadu", "Telangana", "Tripura", "Uttar Pradesh",
       "Uttarakhand", "West Bengal", "Delhi", "Puducherry", "Ladakh",
       "Jammu and Kashmir" >>

StateLat ==
    << 159129, 282180, 262006, 250961, 212787, 152993, 222587, 290588,
       317433, 236102, 153173, 108505, 229734, 197515, 246637, 254670,
       231645, 261584, 209517, 311471, 270238, 275330, 111271, 181124,
       239408, 268467, 300668, 245355, 287041, 120657, 341526, 337782 >>

StateLon ==
    << 797400, 947278, 929376, 853131, 818661, 738243, 711924, 770745,
       771205, 852799, 757139, 762711, 786569, 757139, 939063, 913662,
       929376, 945624, 850985, 753412, 742179, 885122, 786569, 790193,
       919882, 809462, 790193, 883629, 771025, 798711, 775770, 765769 >>

\* the STATES dict as built at import time
StatesTable ==
    [ n \in { StateNames[i] : i \in 1..Len(StateNames) } |->
        LET i == CHOOSE j \in 1..Len(StateNames) : StateNames[j] = n
        IN  [lat |-> StateLat[i], lon |-> StateLon[i]] ]

flood_prone_states ==
    ("Assam" :> 150) @@ ("Bihar" :> 130) @@ ("Odisha" :> 140) @@
    ("West Bengal" :> 135) @@ ("Kerala" :> 125) @@ ("Uttar Pradesh" :> 120)

heat_prone_states ==
    ("Rajasthan" :> 140) @@ ("Gujarat" :> 135) @@ ("Madhya Pradesh" :> 130) @@
    ("Delhi" :> 125) @@ ("Uttar Pradesh" :> 120) @@ ("Maharashtra" :> 115)

seismic_zones ==
    ("Assam" :> 75) @@ ("Meghalaya" :> 70) @@ ("Himachal Pradesh" :> 65) @@
    ("Uttarakhand" :> 70) @@ ("Jammu and Kashmir" :> 80) @@ ("Sikkim" :> 75) @@
    ("Arunachal Pradesh" :> 70) @@ ("Nagaland" :> 65) @@ ("Tripura" :> 50)

landslide_prone_states ==
    ("Himachal Pradesh" :> 160) @@ ("Uttarakhand" :> 150) @@
    ("Meghalaya" :> 170) @@ ("Arunachal Pradesh" :> 150) @@
    ("Mizoram" :> 160) @@ ("Nagaland" :> 150) @@ ("Kerala" :> 140) @@
    ("Odisha" :> 120) @@ ("Assam" :> 130)

cyclone_prone_states ==
    ("Odisha" :> 85) @@ ("Tamil Nadu" :> 75) @@ ("Andhra Pradesh" :> 70) @@
    ("Karnataka" :> 50) @@ ("Goa" :> 45) @@ ("Maharashtra" :> 40) @@
    ("Kerala" :> 60) @@ ("West Bengal" :> 75)

----------------------------------------------------------------------------
\* Risk functions.  Each Raises predicate tells when the Python arithmetic
\* on a null / non-numeric reading throws TypeError.

calculate_flood_risk_raises(weather_data) ==
    \/ "precipitation" \in weather_data.nulls
    \/ "humidity" \in weather_data.nulls

\* min(100, rainfall*2 + humidity*0.3) * multiplier, min(100, .)
calculate_flood_risk(weather_data, state_name) ==
    LET rainfall == weather_data.precipitation
        humidity == weather_data.humidity
        risk     == Min(1000, rainfall * 20 + humidity * 3)    \* tenths
    IN  Min(100000, risk * Get(flood_prone_states, state_name, 100))

calculate_heatwave_risk_raises(weather_data) ==
    "temperature" \in weather_data.nulls

\* max(0, (temp - 35) * 5) * multiplier, min(100, .)
calculate_heatwave_risk(weather_data, state_name) ==
    LET temp == weather_data.temperature
        risk == Max(0, (temp - 35) * 5)                        \* units
    IN  Min(100000, risk * Get(heat_prone_states, state_name, 100) * 10)

calculate_earthquake_risk(state_name) ==
    Get(seismic_zones, state_name, 25) * 1000

calculate_landslide_risk_raises(weather_data) ==
    "precipitation" \in weather_data.nulls

\* min(100, rainfall * 3) * multiplier, min(100, .)
calculate_landslide_risk(weather_data, state_name) ==
    LET rainfall == weather_data.precipitation
        risk     == Min(100, rainfall * 3)                     \* units
    IN  Min(100000, risk * Get(landslide_prone_states, state_name, 100) * 10)

calculate_cyclone_risk(state_name) ==
    Get(cyclone_prone_states, state_name, 15) * 1000

----------------------------------------------------------------------------
\* Weather fetch

WeatherFields == <<"temperature", "humidity", "precipitation", "wind_speed">>

\* the snapshot of the except branch
DefaultWeather ==
    [temperature |-> 25, humidity |-> 60, precipitation |-> 0,
     wind_speed |-> 5, nulls |-> {}]

\* What the upstream does with one GET: "ok" carries the current readings,
\* the other kinds make requests.get / raise_for_status / json() / the key
\* lookups throw.
Upstream(kind, t, h, p, w, nulls) ==
    [kind |-> kind, temperature |-> t, humidity |-> h, precipitation |-> p,
     wind_speed |-> w, nulls |-> nulls]

FailureKinds == {"timeout", "http_error", "missing_key"}

NotCalled == Upstream("not_called", 0, 0, 0, 0, {})

Readings ==
    << <<25, 60, 0, 5>>,      \* calm, equal to the defaults
       <<45, 60, 0, 5>>,      \* hot
       <<60, 20, 0, 10>>,     \* extreme heat
       <<25, 60, 20, 5>>,     \* heavy rain
       <<25, 90, 60, 30>>,    \* cloudburst
       <<25, 60, -10, 5>>,    \* negative precipitation
       <<25, -50, 0, 5>> >>   \* negative humidity

\* the answers the upstream may give: plausible and out-of-range readings,
\* one null field at a time, and the three ways of failing
UpstreamOutcomes ==
    [ i \in 1..Len(Readings) |->
        Upstream("ok", Readings[i][1], Readings[i][2], Readings[i][3],
                 Readings[i][4], {}) ]
    \o [ i \in 1..Len(WeatherFields) |->
        Upstream("ok", IF i = 1 THEN 0 ELSE 25, IF i = 2 THEN 0 ELSE 60, 0,
                 IF i = 4 THEN 0 ELSE 5, {WeatherFields[i]}) ]
    \o << Upstream("timeout", 0, 0, 0, 0, {}),
          Upstream("http_error", 0, 0, 0, 0, {}),
          Upstream("missing_key", 0, 0, 0, 0, {}) >>

fetch_weather_data(lat, lon, up) ==
    IF up.kind = "ok"
    THEN [temperature |-> up.temperature, humidity |-> up.humidity,
          precipitation |-> up.precipitation, wind_speed |-> up.wind_speed,
          nulls |-> up.nulls]
    ELSE DefaultWeather

----------------------------------------------------------------------------
\* Semantic score

\* hash(state_name) % 10.  CPython salts str hashes per process; the salt
\* is the process's hashSalt and the residue is a function of (salt, name)
\* that takes a different value under a different salt.
HashMod10(state_name, salt) ==
    LET digest == CHOOSE j \in 1..Len(StateNames) : StateNames[j] = state_name
    IN  (digest + salt) % 10

\* min(1.0, (risk/100) * (0.9 + (hash % 10)/100)); risk is always a number
\* here, so the bare except (0.75) is never taken
get_hf_semantic_score(disaster_type, state_name, risk_percentage, salt) ==
    Min(10000000, risk_percentage * (90 + HashMod10(state_name, salt)))

\* min(0.95, 0.6 + hf_score * 0.35)
Confidence(hf_score) == Min(950000000, 600000000 + hf_score * 35)

----------------------------------------------------------------------------
\* Recommendations

RecsCritical ==
    << "IMMEDIATE ACTION REQUIRED - Alert local authorities",
       "Prepare evacuation routes and shelter centers",
       "Activate emergency alert systems and SMS broadcasts",
       "Pre-position medical teams and rescue equipment",
       "Ensure water supplies and power backup systems" >>

RecsHigh ==
    << "Issue high-risk alert to residents",
       "Activate disaster management committees",
       "Place traffic and safety barriers",
       "Mobilize healthcare facilities",
       "Check power and water supply systems" >>

RecsModerate ==
    << "Monitor situation closely with real-time updates",
       "Advise residents to prepare emergency kits",
       "Schedule disaster preparedness drills",
       "Activate community warning systems",
       "Update disaster management protocols" >>

RecsLow ==
    << "Situation under control",
       "Continue routine monitoring",
       "Update predictive models regularly",
       "Maintain public awareness programs",
       "Conduct education on disaster safety" >>

\* the spec's band edges (40 / 60 / 80) in place of the code's
RecommendationsSpecBands(risk_percentage) ==
    IF risk_percentage >= 80000 THEN RecsCritical
    ELSE IF risk_percentage >= 60000 THEN RecsHigh
    ELSE IF risk_percentage >= 40000 THEN RecsModerate
    ELSE RecsLow

Recommendations(risk_percentage) ==
    IF risk_percentage >= 75000 THEN RecsCritical
    ELSE IF risk_percentage >= 50000 THEN RecsHigh
    ELSE IF risk_percentage >= 25000 THEN RecsModerate
    ELSE RecsLow

----------------------------------------------------------------------------
\* The request handler

Hazards == {"flood", "heatwave", "earthquake", "landslide", "cyclone"}

\* the query string's disaster_type; Absent is a request without it
Absent == "<absent>"

\* str.lower() on the argument values the requests carry
Lower(s) == IF s = "Flood" THEN "flood" ELSE s

\* request.args.get("disaster_type", "flood").lower()
DisasterType(arg) == Lower(IF arg = Absent THEN "flood" ELSE arg)

SuccessFields ==
    {"state", "disaster_type", "risk_percentage", "hf_semantic_score",
     "confidence", "weather", "recommendations", "details"}

\* jsonify({"error": f"State '{state}' not found"}), 400
NotFound(state) ==
    [status |-> 400, body |-> [error |-> <<"State '", state, "' not found">>]]

\* an exception escaping the view: Flask answers 500
ServerError(exc) == [status |-> 500, body |-> [error |-> exc]]

\* the handler from the weather fetch on, for a state that is in the table
PredictKnown(state, arg, up, salt, table) ==
    LET disaster_type == DisasterType(arg)
        coords  == table[state]
        weather == fetch_weather_data(coords.lat, coords.lon, up)
        fetched == <<"fetch_weather_data">>
    IN  IF calculate_flood_risk_raises(weather)
        THEN [source |-> up, calls |-> fetched \o <<"calculate_flood_risk">>,
              response |-> ServerError("TypeError")]
        ELSE IF calculate_heatwave_risk_raises(weather)
        THEN [source |-> up,
              calls |-> fetched \o
                        <<"calculate_flood_risk", "calculate_heatwave_risk">>,
              response |-> ServerError("TypeError")]
        ELSE
        LET risk_map ==
                [h \in Hazards |->
                    CASE h = "flood"      -> calculate_flood_risk(weather, state)
                      [] h = "heatwave"   -> calculate_heatwave_risk(weather, state)
                      [] h = "earthquake" -> calculate_earthquake_risk(state)
                      [] h = "landslide"  -> calculate_landslide_risk(weather, state)
                      [] h = "cyclone"    -> calculate_cyclone_risk(state)]
            risk_percentage == Get(risk_map, disaster_type, 0)
            hf_score == get_hf_semantic_score(disaster_type, state,
                                              risk_percentage, salt)
        IN  [source |-> up,
             calls |-> fetched \o
                       <<"calculate_flood_risk", "calculate_heatwave_risk",
                         "calculate_earthquake_risk", "calculate_landslide_risk",
                         "calculate_cyclone_risk", "get_hf_semantic_score">>,
             response |->
                [status |-> 200,
                 body |->
                    [state |-> state,
                     disaster_type |-> disaster_type,
                     risk_percentage |-> risk_percentage,
                     hf_semantic_score |-> hf_score,
                     confidence |-> Confidence(hf_score),
                     weather |-> weather,
                     recommendations |-> Recommendations(risk_percentage),
                     details |->
                        [sources |-> "Ambee API + Open-Meteo Weather + Hugging Face AI",
                         lat |-> coords.lat,
                         lon |-> coords.lon]]]]

\* a handler that fetches the weather before it looks the state up
predict_fetch_first(state, arg, up, salt, table) ==
    IF state \notin DOMAIN table
    THEN [source |-> up, calls |-> <<"fetch_weather_data">>,
          response |-> NotFound(state)]
    ELSE PredictKnown(state, arg, up, salt, table)

predict(state, arg, up, salt, table) ==
    IF state \notin DOMAIN table
    THEN [source |-> NotCalled, calls |-> <<>>, response |-> NotFound(state)]
    ELSE PredictKnown(state, arg, up, salt, table)

----------------------------------------------------------------------------
\* State machine

\* path segments and query arguments the requests are drawn from
ReqStates == <<"Goa", "Odisha", "Assam", "Rajasthan", "Atlantis">>

HazardArgs ==
    <<"flood", "heatwave", "earthquake", "landslide", "cyclone", "tsunami",
      "Flood", Absent>>

NoRequest == [state |-> "", disaster_type |-> Absent]

NoResponse == [status |-> 0, body |-> <<>>]

Init ==
    /\ STATES = StatesTable
    /\ hashSalt \in Salts
    /\ request = NoRequest
    /\ source = NotCalled
    /\ calls = <<>>
    /\ response = NoResponse

\* one GET /predict/<state>?disaster_type=<arg>, served start to finish
Predict(state, arg, up) ==
    LET r == predict(state, arg, up, hashSalt, STATES)
    IN  /\ request' = [state |-> state, disaster_type |-> arg]
        /\ source' = r.source
        /\ calls' = r.calls
        /\ response' = r.response
        /\ UNCHANGED <<STATES, hashSalt>>

\* the server process is started anew: the module is imported again and
\* the interpreter draws a new string-hash salt; the client keeps the
\* last answer it received
Restart(salt) ==
    /\ salt # hashSalt
    /\ hashSalt' = salt
    /\ STATES' = StatesTable
    /\ UNCHANGED <<request, source, calls, response>>

Next ==
    \/ \E s \in 1..Len(ReqStates), a \in 1..Len(HazardArgs),
          u \in 1..Len(UpstreamOutcomes) :
          Predict(ReqStates[s], HazardArgs[a], UpstreamOutcomes[u])
    \/ \E salt \in Salts : Restart(salt)

Spec == Init /\ [][Next]_vars

----------------------------------------------------------------------------
\* Vocabulary of the properties

Answered == response.status # 0

Success == response.status = 200

KnownRegion == request.state \in DOMAIN STATES

ReqHazard == DisasterType(request.disaster_type)

\* the coastal regions are the entries of the cyclone table
Coastal(state_name) == state_name \in DOMAIN cyclone_prone_states

Applicable == ~(ReqHazard = "cyclone" /\ ~Coastal(request.state))

Called(f) == \E i \in 1..Len(calls) : calls[i] = f

NotApplicableRecs == << "cyclone risk not applicable for this region" >>

\* The fusion of the specification, in thousandths of a percent.  The
\* service has no event feed and calls no semantic source, so the event
\* contribution is its baseline 30 and the semantic contribution its
\* fallback 50; the weather contribution (hundredths) is the per-hazard
\* normalisation of section 4.2, 30 for a generic hazard.
SpecWeatherScore(w, hazard, state_name) ==
    CASE hazard = "flood"      -> Min(80, w.precipitation * 20 + w.humidity) * 100
      [] hazard = "heatwave"   -> Max(0, (w.temperature - 38) * 8) * 100
      [] hazard = "earthquake" -> 40 * 100
      [] hazard = "cyclone"    -> Min(80, w.wind_speed * 6) * 100
      [] hazard = "landslide"  ->
            Min(70, w.precipitation * 20)
              * Get(landslide_prone_states, state_name, 100)
      [] OTHER                 -> 30 * 100

\* round(x, 1) of a value in thousandths, for x >= 0
Round1(x) == ((x + 50) \div 100) * 100

SpecFinalRisk(w, hazard, state_name) ==
    LET weighted == 30 * 500 + SpecWeatherScore(w, hazard, state_name) * 3
                    + 50 * 200
    IN  Min(100000, Max(0, Round1(Max(0, weighted))))

----------------------------------------------------------------------------
\* Properties

\* C1: every success response carries a risk_percentage in [0,100],
\* whatever readings the weather source delivered (negative ones included).
C1_RiskInRange ==
    Success =>
        /\ response.body.risk_percentage >= 0
        /\ response.body.risk_percentage <= 100000

\* C2: for an applicable request the risk is the weighted fusion
\* round(event*0.5 + weather*0.3 + semantic*0.2, 1) clamped to [0,100];
\* a coastal region under the readings (25, 60, 0, 5) answers a flood
\* request with 43.0, which lies in the MODERATE band.
C2_WeightedFusion ==
    (Success /\ Applicable) =>
        /\ response.body.risk_percentage =
              SpecFinalRisk(response.body.weather, ReqHazard, request.state)
        /\ ( /\ Coastal(request.state)
             /\ ReqHazard = "flood"
             /\ response.body.weather = DefaultWeather )
           => /\ response.body.risk_percentage = 43000
              /\ response.body.recommendations = RecsModerate

\* C3: a cyclone request for a region outside the coastal table returns
\* risk 0.0, confidence 0.95 and the single "not applicable" entry; every
\* other pairing is scored as applicable.
C3_CycloneIneligible ==
    Success =>
        IF Applicable
        THEN response.body.recommendations # NotApplicableRecs
        ELSE /\ response.body.risk_percentage = 0
             /\ response.body.confidence = 950000000
             /\ response.body.recommendations = NotApplicableRecs

\* C4: while a cyclone request for a non-coastal region is served, the
\* weather source is never called.
C4_NoFetchWhenIneligible ==
    (Answered /\ KnownRegion /\ ~Applicable) => ~Called("fetch_weather_data")

\* C5 as written: the bands are [0,40) LOW, [40,60) MODERATE, [60,80) HIGH,
\* [80,100] CRITICAL, the same for every hazard.
C5_BandsAsWritten ==
    Success =>
        LET r == response.body.risk_percentage
            recs == response.body.recommendations
        IN  /\ (0 <= r /\ r < 40000) => recs = RecsLow
            /\ (40000 <= r /\ r < 60000) => recs = RecsModerate
            /\ (60000 <= r /\ r < 80000) => recs = RecsHigh
            /\ (80000 <= r /\ r <= 100000) => recs = RecsCritical

\* C5 amended: the bands are below 25 LOW, [25,50) MODERATE, [50,75) HIGH,
\* 75 and above CRITICAL, lower edge inclusive, the same for every hazard.
C5_Bands ==
    Success =>
        LET r == response.body.risk_percentage
            recs == response.body.recommendations
        IN  /\ r < 25000 => recs = RecsLow
            /\ (25000 <= r /\ r < 50000) => recs = RecsModerate
            /\ (50000 <= r /\ r < 75000) => recs = RecsHigh
            /\ 75000 <= r => recs = RecsCritical

\* a risk exactly on the top band's lower edge was answered as CRITICAL
C5_Witness ==
    /\ Success
    /\ response.body.risk_percentage = 75000
    /\ response.body.recommendations = RecsCritical

\* C6: when the fetch for a known region fails, times out or returns a
\* malformed answer (missing key, null or non-numeric field), the response
\* is a complete success built on the default snapshot.
C6_WeatherFallback ==
    ( /\ Answered
      /\ KnownRegion
      /\ \/ source.kind \in FailureKinds
         \/ (source.kind = "ok" /\ source.nulls # {}) )
    => /\ response.status = 200
       /\ DOMAIN response.body = SuccessFields
       /\ response.body.weather = DefaultWeather

\* C7: a request for a region that is not in the table is answered with a
\* not-found client error; nothing was fetched, no risk function ran and
\* the table is what it was at start.
C7_UnknownRegion ==
    (Answered /\ request.state \notin DOMAIN StatesTable) =>
        /\ response.status \in 400..499
        /\ response.body = [error |-> <<"State '", request.state, "' not found">>]
        /\ calls = <<>>
        /\ source = NotCalled
        /\ STATES = StatesTable

\* a request for a region outside the table has been answered
C7_Witness ==
    /\ Answered
    /\ request.state = "Atlantis"
    /\ request.state \notin DOMAIN STATES
    /\ response.status = 400

\* C8: a known region with a hazard outside the five known ones gets a
\* complete success response scored with the neutral fallback 30.
C8_UnknownHazardNeutral ==
    (Answered /\ KnownRegion /\ ReqHazard \notin Hazards) =>
        /\ response.status = 200
        /\ DOMAIN response.body = SuccessFields
        /\ response.body.risk_percentage = 30000

\* C9: for an applicable request the confidence is in [0.6, 1.0].
C9_ConfidenceInRange ==
    (Success /\ Applicable) =>
        /\ response.body.confidence >= 600000000
        /\ response.body.confidence <= 1000000000

\* C10: the answer a client holds equals the answer the running process
\* gives to the same region, hazard and weather snapshot, also when the
\* process is not the one that produced it.
C10_Deterministic ==
    Success =>
        LET again == predict(request.state, request.disaster_type, source,
                             hashSalt, STATES).response
        IN  /\ again.status = 200
            /\ again.body.risk_percentage = response.body.risk_percentage
            /\ again.body.hf_semantic_score = response.body.hf_semantic_score
            /\ again.body.confidence = response.body.confidence
            /\ again.body.recommendations = response.body.recommendations

====
